---- MODULE Spec2Model ----
(***************************************************************************)
(* Evaluation engine of Data-Forge Notebook.                               *)
(*                                                                         *)
(* Part I  - the evaluation supervisor (the HTTP server that forks one     *)
(*           worker per notebook and relays its events into a queue).      *)
(*           src/shells/evaluation-engine/package.json, lines 45-374.      *)
(* Part II - the in-worker evaluator (CodeEvaluator).                      *)
(*           src/packages/evaluation-engine/src/lib/code-evaluator.ts      *)
(* Part III - the code generator (JavaScriptCodeGenerator), same file.     *)
(***************************************************************************)
EXTENDS Integers, Sequences, FiniteSets, TLC

(***************************************************************************)
(* Bounds of the model.                                                    *)
(***************************************************************************)
\* Number of workers forked over one run of the server.
MaxSessions == 2
\* Number of notebook-event messages the workers send over one run of the server.
MaxEvents == 1
\* Number of code cells of the notebook the evaluator is constructed with.
NumCells == 2
\* Number of asynchronous operations user code starts: callbacks it
\* schedules and promises a cell body awaits.
MaxOps == 1
\* Number of outputs (display calls, writes to stdout or stderr) of user code.
MaxWrites == 1

\* Number of cells (code and markdown) of the notebook code is generated for.
MaxNotebookCells == 2
\* Number of lines of the text of a cell.
MaxLines == 2

\* Program constant: maximum number of outputs before outputs are capped.
MAX_OUTPUTS == 1000

\* Every table of the supervisor is keyed by notebook id and no handler reads
\* the entry of another id, so one id shows every interaction of sessions.
NotebookIds == {"nb1"}
Sessions == 1..MaxSessions

(***************************************************************************)
(* Part I: supervisor state.                                               *)
(*   workers       the look up table `workers`: notebook id -> the worker  *)
(*                 registered for it (0: no entry).                        *)
(*   messages      the look up table `messages`: notebook id -> queue;     *)
(*                 present = FALSE is `undefined` (no entry).              *)
(*   sessions      one record per forkEvalWorker call: the worker process  *)
(*                 (proc; done: it will send no further message), and the  *)
(*                 closure variable notebookTimeout of that call ("armed": *)
(*                 a pending timer, "off": undefined).                     *)
(*   numSent       number of notebook-event messages the workers sent.     *)
(*   cleanupTimers the pending one-minute timers of onWorkerCompletion, in *)
(*                 the order they were armed (equal delays fire in order). *)
(*   response      the body the handler that ran last sent as its HTTP     *)
(*                 response to /messages (NoResponse after other handlers).*)
(* History (not program state):                                            *)
(*   response.found        whether messages[notebookId] existed when the   *)
(*                 /messages handler started.                              *)
(*   sessions[s].killedBy  the call site of the worker.kill() that         *)
(*                 signalled the process, kept until the process exited.   *)
(*   cleanupTimers[i].by   the session whose "completed" message armed the *)
(*                 timer, 0 for the other call sites.                      *)
(*   owed          events pushed on the notebook's current queue and not   *)
(*                 yet handed out by /messages.                            *)
(*   discarded     the events of workers that were on a queue when         *)
(*                 /evaluate replaced it.                                  *)
(***************************************************************************)
VARIABLES workers, messages, sessions, cleanupTimers, numSent, response, owed, discarded

(***************************************************************************)
(* Part II: evaluator state.                                               *)
(*   evaluator     the fields of the CodeEvaluator object; phase is the    *)
(*                 position of evalCode / evalSetup / evalGeneratedCode;   *)
(*                 overridden: process.stdout.write and stderr.write are   *)
(*                 the overrides; listening: the uncaughtException and     *)
(*                 unhandledRejection listeners are installed.             *)
(*   runtime       the JavaScript run time of the worker: what runs now    *)
(*                 (active, body, cur), the callbacks, continuations and   *)
(*                 promise reactions that are pending, the table of the    *)
(*                 async tracker, the clock (expired) and the counters     *)
(*                 that bound the user code.                               *)
(* History (not program state):                                            *)
(*   events        the calls of the on... callbacks of the evaluator, in   *)
(*                 the order made (run-length encoded).                    *)
(*   runtime.swallowed  a write of user code to stdout or stderr was not   *)
(*                 handed to the original write of the stream.             *)
(***************************************************************************)
VARIABLES evaluator, runtime, events

supVars == <<workers, messages, sessions, cleanupTimers, numSent, response, owed, discarded>>

evalVars == <<evaluator, runtime, events>>

(***************************************************************************)
(* Part III: code generator state.                                         *)
(*   notebook      the cells of the notebook, in order: id, type, scope    *)
(*                 and text; the text is the sequence of its lines, each   *)
(*                 a module import statement ("import"), another line      *)
(*                 ("code") or, for the empty text, the one empty line     *)
(*                 ("blank").                                              *)
(*   generated     the result of internalGenCode once it was called: the   *)
(*                 code as the sequence of its lines and the entries of    *)
(*                 the source map.                                         *)
(***************************************************************************)
VARIABLES notebook, generated

genVars == <<notebook, generated>>

vars == <<supVars, evalVars, genVars>>

NoQueue == [present |-> FALSE, items |-> <<>>]
EmptyQueue == [present |-> TRUE, items |-> <<>>]

Unborn == [nb |-> "none", proc |-> "unborn", timer |-> "none", done |-> FALSE, killedBy |-> "none"]
NoResponse == [nb |-> "none", ok |-> TRUE, messages |-> <<>>, found |-> FALSE]

\* The synthesized events of onUnexpectedWorkerCompletion / onNotebookTimeout.
ReceiveError == [name |-> "evaluation-event", event |-> "receive-error", from |-> 0, seq |-> 0]
NotebookEvalCompleted == [name |-> "evaluation-event", event |-> "notebook-eval-completed", from |-> 0, seq |-> 0]
\* The k-th notebook event of the run, sent by the worker of session s.
WorkerEvent(s, k) == [name |-> "evaluation-event", event |-> "worker-event", from |-> s, seq |-> k]

\* The program state as one value, so that handlers compose as functions.
SupState == [workers |-> workers, messages |-> messages, sessions |-> sessions,
             cleanupTimers |-> cleanupTimers, numSent |-> numSent]

NumForked(st) == Cardinality({s \in Sessions : st.sessions[s].proc # "unborn"})

\* messages[notebookId].push(e), guarded by `if (messages[notebookId])`.
PushIfPresent(st, notebookId, evs) ==
    IF st.messages[notebookId].present
    THEN [st EXCEPT !.messages[notebookId].items = @ \o evs]
    ELSE st

Pair == <<ReceiveError, NotebookEvalCompleted>>

\* worker.kill(): a signal to a process that is still running.
Kill(st, s, site) ==
    IF st.sessions[s].proc = "running"
    THEN [st EXCEPT !.sessions[s].proc = "killed", !.sessions[s].killedBy = site]
    ELSE st

\* clearTimeout(notebookTimeout); notebookTimeout = undefined, under `if (notebookTimeout)`.
CancelTimeout(st, s) ==
    IF st.sessions[s].timer = "armed"
    THEN [st EXCEPT !.sessions[s].timer = "off"]
    ELSE st

\* onWorkerCompletion: delete workers[notebookId]; arm the cleanup timer.
\* `by` records the call site that armed the timer: the session whose
\* "completed" message was processed, 0 for the other call sites.
onWorkerCompletion(st, notebookId, by) ==
    [st EXCEPT !.workers[notebookId] = 0,
               !.cleanupTimers = Append(@, [nb |-> notebookId, by |-> by])]

onUnexpectedWorkerCompletion(st, notebookId, by) ==
    PushIfPresent(onWorkerCompletion(st, notebookId, by), notebookId, Pair)

onNotebookTimeout(st, notebookId, by) ==
    PushIfPresent(onWorkerCompletion(st, notebookId, by), notebookId, Pair)

onNotebookEvent(st, notebookId, ev) ==
    PushIfPresent(st, notebookId, <<ev>>)

\* Mutant: the completion pair is pushed whether or not a worker was registered.
killWorkersAlwaysNotify(st, notebookId, site) ==
    PushIfPresent(IF st.workers[notebookId] # 0
                  THEN Kill(onWorkerCompletion(st, notebookId, 0),
                            st.workers[notebookId], site)
                  ELSE st,
                  notebookId, Pair)

\* `site` is the handler that called (history only).
killWorkers(st, notebookId, site) ==
    IF st.workers[notebookId] # 0
    THEN Kill(onWorkerCompletion(st, notebookId, 0), st.workers[notebookId], site)
    ELSE st

\* Mutant: a queue that exists is kept for the new worker.
forkEvalWorkerKeepQueue(st, notebookId) ==
    LET s == NumForked(st) + 1
    IN  [st EXCEPT !.workers[notebookId] = s,
                   !.messages[notebookId].present = TRUE,
                   !.sessions[s] = [nb |-> notebookId, proc |-> "running",
                                    timer |-> "armed", done |-> FALSE, killedBy |-> "none"]]

forkEvalWorker(st, notebookId) ==
    LET s == NumForked(st) + 1
    IN  [st EXCEPT !.workers[notebookId] = s,
                   !.messages[notebookId] = EmptyQueue,
                   !.sessions[s] = [nb |-> notebookId, proc |-> "running",
                                    timer |-> "armed", done |-> FALSE, killedBy |-> "none"]]

\* Mutant: the new worker is forked without killing the registered one.
evaluateNoKill(st, notebookId) == forkEvalWorker(st, notebookId)

\* app.post("/evaluate")
evaluate(st, notebookId) ==
    forkEvalWorker(killWorkers(st, notebookId, "evaluate"), notebookId)

\* app.post("/stop-evaluation")
stopEvaluation(st, notebookId) == killWorkers(st, notebookId, "stop")

\* Mutant: no `|| []`, a missing queue is sent as it is.
pullResponseNoDefault(st, notebookId) ==
    [nb |-> notebookId, ok |-> st.messages[notebookId].present,
     messages |-> st.messages[notebookId].items,
     found |-> st.messages[notebookId].present]

\* app.post("/messages"): the body sent, and the state left behind.
pullResponse(st, notebookId) ==
    [nb |-> notebookId, ok |-> TRUE,
     messages |-> IF st.messages[notebookId].present
                  THEN st.messages[notebookId].items ELSE <<>>,
     found |-> st.messages[notebookId].present]

\* Mutant: the queue is not emptied after it was sent.
pullStateNoClear(st, notebookId) ==
    [st EXCEPT !.messages[notebookId].present = TRUE]

pullState(st, notebookId) ==
    [st EXCEPT !.messages[notebookId] = EmptyQueue]

\* app.get("/status")
status(st) ==
    LET notebookIds == {n \in NotebookIds : st.workers[n] # 0}
    IN  [numEvaluations |-> Cardinality(notebookIds), notebooksIds |-> notebookIds]

\* The setTimeout callback of forkEvalWorker.
timeoutCallback(st, s) ==
    LET st1 == Kill(onNotebookTimeout(st, st.sessions[s].nb, 0), s, "timeout")
    IN  [st1 EXCEPT !.sessions[s].timer = "off"]

\* The worker process is gone; its channel delivers nothing more.
Exited(st, s) ==
    [st EXCEPT !.sessions[s].proc = "exited", !.sessions[s].done = TRUE,
               !.sessions[s].killedBy = "none"]

\* worker.on("exit")
exitHandler(st, s) ==
    LET n == st.sessions[s].nb
        st0 == Exited(st, s)
    IN  IF st0.workers[n] # 0
        THEN onUnexpectedWorkerCompletion(CancelTimeout(st0, s), n, 0)
        ELSE st0

\* worker.on("message"), message.event = "notebook-event"
messageEventHandler(st, s) ==
    LET n == st.sessions[s].nb
        k == st.numSent + 1
        st0 == [st EXCEPT !.numSent = k]
    IN  IF st0.workers[n] = 0
        THEN st0
        ELSE onNotebookEvent(st0, n, WorkerEvent(s, k))

\* worker.on("message"), message.event = "completed"
messageCompletedHandler(st, s) ==
    LET n == st.sessions[s].nb
        st0 == [st EXCEPT !.sessions[s].done = TRUE]
    IN  IF st0.workers[n] = 0
        THEN st0
        ELSE onWorkerCompletion(CancelTimeout(st0, s), n, s)

\* The callback of the setTimeout in onWorkerCompletion.
cleanupCallback(st) ==
    [st EXCEPT !.messages[Head(st.cleanupTimers).nb] = NoQueue,
               !.cleanupTimers = Tail(@)]

(***************************************************************************)
(* Part I: actions. Each is one handler run to completion.                 *)
(***************************************************************************)
Install(st) ==
    /\ workers' = st.workers
    /\ messages' = st.messages
    /\ sessions' = st.sessions
    /\ cleanupTimers' = st.cleanupTimers
    /\ numSent' = st.numSent
    /\ UNCHANGED <<evalVars, genVars>>

\* The events a handler pushed on the queue of n.
Pushed(st, n) ==
    IF messages[n].present /\ st.messages[n].present
       /\ Len(st.messages[n].items) > Len(messages[n].items)
    THEN SubSeq(st.messages[n].items, Len(messages[n].items) + 1, Len(st.messages[n].items))
    ELSE <<>>

IsPrefix(a, b) == Len(a) <= Len(b) /\ SubSeq(b, 1, Len(a)) = a

\* What is still owed once `got` was handed out.
Discharge(due, got) ==
    IF IsPrefix(got, due) THEN SubSeq(due, Len(got) + 1, Len(due)) ELSE due

Pushes(st) == owed' = [m \in NotebookIds |-> owed[m] \o Pushed(st, m)]

\* The events of workers that are on a queue.
WorkerEventsOn(queue) ==
    {queue.items[i] : i \in {j \in DOMAIN queue.items : queue.items[j].event = "worker-event"}}

InitSup ==
    /\ workers = [n \in NotebookIds |-> 0]
    /\ messages = [n \in NotebookIds |-> NoQueue]
    /\ sessions = [s \in Sessions |-> Unborn]
    /\ cleanupTimers = <<>>
    /\ numSent = 0
    /\ response = NoResponse
    /\ owed = [n \in NotebookIds |-> <<>>]
    /\ discarded = {}

Evaluate(n) ==
    /\ NumForked(SupState) < MaxSessions
    /\ Install(evaluate(SupState, n))
    /\ response' = NoResponse
    /\ owed' = [owed EXCEPT ![n] = <<>>]
    /\ discarded' = discarded \cup (WorkerEventsOn(messages[n]) \ WorkerEventsOn(messages'[n]))

StopEvaluation(n) ==
    /\ Install(stopEvaluation(SupState, n))
    /\ Pushes(stopEvaluation(SupState, n))
    /\ response' = NoResponse
    /\ UNCHANGED discarded

PullMessages(n) ==
    /\ Install(pullState(SupState, n))
    /\ response' = pullResponse(SupState, n)
    /\ owed' = [owed EXCEPT ![n] = Discharge(@, response'.messages)]
    /\ UNCHANGED discarded

\* Timers of equal delay fire in the order they were armed.
TimeoutFires(s) ==
    /\ sessions[s].timer = "armed"
    /\ \A t \in Sessions : t < s => sessions[t].timer # "armed"
    /\ Install(timeoutCallback(SupState, s))
    /\ Pushes(timeoutCallback(SupState, s))
    /\ response' = NoResponse
    /\ UNCHANGED discarded

WorkerExits(s) ==
    /\ sessions[s].proc \in {"running", "killed"}
    /\ Install(exitHandler(SupState, s))
    /\ Pushes(exitHandler(SupState, s))
    /\ response' = NoResponse
    /\ UNCHANGED discarded

\* Messages a worker sent before it died are delivered until its exit event.
WorkerSendsEvent(s) ==
    /\ sessions[s].proc \in {"running", "killed"}
    /\ ~sessions[s].done
    /\ numSent < MaxEvents
    /\ Install(messageEventHandler(SupState, s))
    /\ Pushes(messageEventHandler(SupState, s))
    /\ response' = NoResponse
    /\ UNCHANGED discarded

WorkerSendsCompleted(s) ==
    /\ sessions[s].proc \in {"running", "killed"}
    /\ ~sessions[s].done
    /\ Install(messageCompletedHandler(SupState, s))
    /\ Pushes(messageCompletedHandler(SupState, s))
    /\ response' = NoResponse
    /\ UNCHANGED discarded

CleanupFires ==
    /\ cleanupTimers # <<>>
    /\ Install(cleanupCallback(SupState))
    /\ response' = NoResponse
    /\ UNCHANGED discarded
    /\ owed' = [owed EXCEPT ![Head(cleanupTimers).nb] = <<>>]

Next ==
    \/ \E n \in NotebookIds : Evaluate(n)
    \/ \E n \in NotebookIds : StopEvaluation(n)
    \/ \E n \in NotebookIds : PullMessages(n)
    \/ \E s \in Sessions : TimeoutFires(s)
    \/ \E s \in Sessions : WorkerExits(s)
    \/ \E s \in Sessions : WorkerSendsEvent(s)
    \/ \E s \in Sessions : WorkerSendsCompleted(s)
    \/ CleanupFires

(***************************************************************************)
(* Part I: claims about the supervisor.                                    *)
(***************************************************************************)
Born(s) == sessions[s].proc # "unborn"

\* No worker was forked for the notebook of s after s.
Latest(s) ==
    /\ Born(s)
    /\ \A t \in Sessions : (t > s /\ Born(t)) => sessions[t].nb # sessions[s].nb

\* The cleanup timer armed by the "completed" message of s has not fired yet.
GracePending(s) == \E i \in DOMAIN cleanupTimers : cleanupTimers[i].by = s

LiveWorkers(n) == {s \in Sessions : Born(s) /\ sessions[s].nb = n /\ workers[n] = s}

C1_RegisteredIsRunning ==
    \A n \in NotebookIds :
        /\ Cardinality(LiveWorkers(n)) <= 1
        /\ workers[n] # 0 =>
             /\ sessions[workers[n]].nb = n
             /\ sessions[workers[n]].proc = "running"

C1_EvaluateKillsOld ==
    \A n \in NotebookIds :
        (Evaluate(n) /\ workers[n] # 0) =>
            /\ sessions'[workers[n]].proc = "killed"
            /\ workers'[n] \notin {0, workers[n]}
            /\ ~Born(workers'[n])
            /\ sessions'[workers'[n]].proc = "running"

\* C1: for every notebook id at most one worker is registered, the registered
\* worker is a running process forked for that id, and an /evaluate request
\* that finds a worker registered leaves that worker killed and a newly
\* forked worker registered in its place.
C1_OneLiveWorker == []C1_RegisteredIsRunning /\ [][C1_EvaluateKillsOld]_vars

C1_Witness ==
    \E s \in Sessions :
        /\ sessions[s].killedBy = "evaluate"
        /\ workers[sessions[s].nb] \notin {0, s}
        /\ sessions[workers[sessions[s].nb]].proc = "running"

\* C4: a /stop-evaluation request for a notebook with a registered worker
\* (and a queue) kills the worker, removes it from the registry and appends
\* receive-error, notebook-eval-completed to the notebook's queue.
C4_StopSynthesizesCompletion ==
    [][\A n \in NotebookIds :
         (StopEvaluation(n) /\ workers[n] # 0 /\ messages[n].present) =>
             /\ sessions'[workers[n]].proc = "killed"
             /\ workers'[n] = 0
             /\ messages'[n].present
             /\ messages'[n].items = messages[n].items \o Pair]_vars

\* C5: when the worker that is registered for its notebook exits, the
\* supervisor appends exactly receive-error, notebook-eval-completed to the
\* notebook's queue, cancels the timeout timer and removes the notebook from
\* the ids /status reports.
C5_UnexpectedExitSynthesizesCompletion ==
    [][\A s \in Sessions :
         (WorkerExits(s) /\ workers[sessions[s].nb] = s) =>
             /\ messages'[sessions[s].nb].present
             /\ messages'[sessions[s].nb].items = messages[sessions[s].nb].items \o Pair
             /\ sessions'[s].timer = "off"
             /\ sessions[s].nb \notin status(SupState').notebooksIds]_vars

\* C6: when the timeout timer of the registered worker fires, the supervisor
\* appends receive-error, notebook-eval-completed, removes the worker from the
\* registry and kills it; the exit event of the worker killed by the timeout
\* then leaves every queue as it is.
C6_TimeoutSynthesizesOnePair ==
    [][\A s \in Sessions :
         /\ (TimeoutFires(s) /\ workers[sessions[s].nb] = s) =>
                /\ messages'[sessions[s].nb].present
                /\ messages'[sessions[s].nb].items = messages[sessions[s].nb].items \o Pair
                /\ workers'[sessions[s].nb] = 0
                /\ sessions'[s].proc = "killed"
         /\ (WorkerExits(s) /\ sessions[s].killedBy = "timeout") =>
                messages' = messages]_vars

\* C7: processing the "completed" message of the registered worker leaves
\* the queue as it is, and as long as the cleanup timer armed by that message
\* has not fired (and no new worker was forked for the notebook) no event of
\* that worker that is still unpulled is deleted from the queue.
C7_QueueKeptThroughGracePeriod ==
    [][\A s \in Sessions :
         /\ (WorkerSendsCompleted(s) /\ workers[sessions[s].nb] = s) =>
                messages' = messages
         /\ (CleanupFires /\ Latest(s) /\ GracePending(s)') =>
                \A i \in DOMAIN messages[sessions[s].nb].items :
                    \/ messages[sessions[s].nb].items[i].from # s
                    \/ messages'[sessions[s].nb].present]_vars

C8_OwedIsQueue == \A n \in NotebookIds : owed[n] = messages[n].items

C8_PullDrains ==
    \A n \in NotebookIds :
        PullMessages(n) =>
            /\ response'.messages = messages[n].items
            /\ messages'[n] = EmptyQueue

\* C8: /messages sends the whole queue and leaves it empty in one step, so
\* that at any time the events pushed on the queue and not yet sent are
\* exactly the queue, in the order pushed: each is sent by exactly one pull.
C8_PullReturnsEachEventOnce == []C8_OwedIsQueue /\ [][C8_PullDrains]_vars

C8_Witness ==
    \E n \in NotebookIds :
        /\ response.nb = n
        /\ Len(response.messages) >= 2
        /\ messages[n] = EmptyQueue

\* C9: a /messages request for a notebook id that has no queue (never
\* evaluated, or cleaned up) is answered with an empty list, not an error.
C9_PullWithoutSessionIsEmpty ==
    \A n \in NotebookIds :
        (response.nb = n /\ ~response.found) =>
            /\ response.ok
            /\ response.messages = <<>>

C9_Witness ==
    \E n \in NotebookIds :
        /\ response.nb = n
        /\ ~response.found
        /\ \E s \in Sessions : Born(s) /\ sessions[s].nb = n

\* C10: in every reachable state, stopping a notebook twice leaves the
\* registry and the queues as stopping it once does, and stopping a notebook
\* without registered worker changes nothing.
C10_StopIdempotent ==
    \A n \in NotebookIds :
        LET once == stopEvaluation(SupState, n)
            twice == stopEvaluation(once, n)
        IN  /\ twice.workers = once.workers
            /\ twice.messages = once.messages
            /\ workers[n] = 0 => once = SupState

C10_Witness ==
    \E s \in Sessions :
        /\ sessions[s].killedBy = "stop"
        /\ workers[sessions[s].nb] = 0
        /\ messages[sessions[s].nb].present

Registered(s) == Born(s) /\ workers[sessions[s].nb] = s

\* C25: the exit event of a worker that /evaluate killed to replace it leaves
\* the registry and the queues as they are.
C25_OldExitLeavesNewSession ==
    [][\A s \in Sessions :
         (WorkerExits(s) /\ sessions[s].killedBy = "evaluate") =>
             /\ workers' = workers
             /\ messages' = messages]_vars

\* C26: the timeout timer of a session that is no longer the registered one
\* (it was stopped or replaced) leaves the registry and the queues as they
\* are when it fires.
C26_TimerActsOnOwnSession ==
    [][\A s \in Sessions :
         (TimeoutFires(s) /\ ~Registered(s)) =>
             /\ workers' = workers
             /\ messages' = messages]_vars

\* C27: a notebook with a registered worker has a queue.
C27_LiveSessionHasQueue ==
    \A n \in NotebookIds : workers[n] # 0 => messages[n].present

\* The "completed" message of s was processed while s was registered: only
\* that handler turns the timer of a process nobody signalled off.
EndedNormally(s) ==
    /\ sessions[s].proc = "running"
    /\ sessions[s].done
    /\ sessions[s].timer = "off"

\* C28: once the "completed" message of a session was processed, neither
\* its timer nor the exit of its worker appends anything: the timer is off
\* and the exit event leaves the registry and the queues as they are.
C28_NormalEndGetsNoPair ==
    [][\A s \in Sessions :
         EndedNormally(s) =>
             /\ ~TimeoutFires(s)
             /\ WorkerExits(s) => (workers' = workers /\ messages' = messages)]_vars

\* C29: a message of a worker that is not the registered one any more
\* leaves the registry and the queues as they are.
C29_LateMessagesIgnored ==
    [][\A s \in Sessions :
         (Born(s) /\ ~Registered(s)) =>
             /\ WorkerSendsEvent(s) => (workers' = workers /\ messages' = messages)
             /\ WorkerSendsCompleted(s) => (workers' = workers /\ messages' = messages)]_vars

\* C38: /evaluate leaves the notebook with a queue that is empty, whatever
\* was on the queue before, and an event of a worker that was on the queue
\* it replaced is on no queue afterwards and in no answer of /messages.
C38_EvaluateStep ==
    \A n \in NotebookIds :
        Evaluate(n) =>
            /\ messages'[n] = EmptyQueue
            /\ discarded' = discarded \cup WorkerEventsOn(messages[n])

C38_DiscardedNeverReturned ==
    \A e \in discarded :
        /\ \A n \in NotebookIds : e \notin WorkerEventsOn(messages[n])
        /\ \A i \in DOMAIN response.messages : response.messages[i] # e

C38_EvaluateDiscardsQueue == []C38_DiscardedNeverReturned /\ [][C38_EvaluateStep]_vars

\* An event was on the queue when /evaluate replaced it, and /messages was
\* called since then.
C38_Witness ==
    /\ discarded # {}
    /\ response.nb \in NotebookIds
    /\ \E s \in Sessions : sessions[s].killedBy = "evaluate"

(***************************************************************************)
(* Part II: the evaluator. The operators work on a record                  *)
(* [ce: the CodeEvaluator, rt: the run time, events]; cells are numbered   *)
(* by cell index, as in cellIds and cellsCompleted.                        *)
(***************************************************************************)
CellIdx == 0..(NumCells - 1)

EvalState == [ce |-> evaluator, rt |-> runtime, events |-> events]

\* One entry of events stands for n consecutive calls of a callback with the
\* same arguments.
CellEvent(type, cellIndex) == [type |-> type, cell |-> cellIndex, n |-> 1]
NotebookEvent(type) == [type |-> type, n |-> 1]

Emit(es, e) ==
    LET last == Len(es.events)
    IN  IF last > 0 /\ es.events[last].type = e.type /\ [es.events[last] EXCEPT !.n = 1] = e
        THEN [es EXCEPT !.events[last].n = @ + 1]
        ELSE [es EXCEPT !.events = Append(@, e)]

\* Mutant: every output is attributed to the first cell, in whose context
\* the calls of all the cells are nested.
getCurCellIdOutermost(ctx) == 0

\* The cell of an async context: ctx is {} when the tracker resolves the
\* context to no cell, {c} when it resolves it to cell c.
getCurCellId(ctx) == IF ctx = {} THEN 0 ELSE CHOOSE c \in ctx : TRUE

\* isOutputCapped: its result, and the state it leaves.
isOutputCapped(es) == es.ce.outputsCapped \/ es.ce.numOutputs >= MAX_OUTPUTS

outputCounted(es) ==
    IF es.ce.outputsCapped THEN es
    ELSE IF es.ce.numOutputs >= MAX_OUTPUTS
         THEN [Emit(es, NotebookEvent("output-capped")) EXCEPT !.ce.outputsCapped = TRUE]
         ELSE [es EXCEPT !.ce.numOutputs = @ + 1]

\* Mutant: display does not honour the cap.
displayUncapped(es, ctx) ==
    Emit(outputCounted(es), CellEvent("display", getCurCellId(ctx)))

display(es, ctx) ==
    IF isOutputCapped(es) THEN outputCounted(es)
    ELSE Emit(outputCounted(es), CellEvent("display", getCurCellId(ctx)))

\* process.stdout.write: the override while it is installed, else the
\* original write, which raises no event. The override hands the write to
\* the original write unless output is capped.
stdoutWrite(es, ctx) ==
    IF ~es.ce.overridden THEN es
    ELSE IF isOutputCapped(es) THEN [outputCounted(es) EXCEPT !.rt.swallowed = TRUE]
         ELSE Emit(outputCounted(es), CellEvent("display", getCurCellId(ctx)))

stderrWrite(es, ctx) ==
    IF ~es.ce.overridden THEN es
    ELSE IF isOutputCapped(es) THEN [outputCounted(es) EXCEPT !.rt.swallowed = TRUE]
         ELSE Emit(outputCounted(es), CellEvent("error", getCurCellId(ctx)))

userOutput(es, kind, ctx) ==
    CASE kind = "display" -> display(es, ctx)
      [] kind = "stdout" -> stdoutWrite(es, ctx)
      [] kind = "stderr" -> stderrWrite(es, ctx)

\* A loop of user code that makes the same output `times` times.
RECURSIVE userOutputs(_, _, _, _)
userOutputs(es, kind, ctx, times) ==
    IF times = 0 THEN es
    ELSE IF times = 1 THEN userOutput(es, kind, ctx)
    ELSE LET half == userOutputs(es, kind, ctx, times \div 2)
         IN  \* the test makes TLC compute the first half before the second
             IF half.ce.numOutputs >= 0
             THEN userOutputs(half, kind, ctx, times - (times \div 2))
             ELSE half

\* reportError, awaited by the caller: onError is called before the caller
\* goes on.
reportError(es, cellIndex) == Emit(es, CellEvent("error", cellIndex))

\* reportErrorSync: reportError is started and not awaited; it calls onError
\* once formatErrorMessage has settled, in a later turn of the event loop.
reportErrorSync(es, cellIndex) == [es EXCEPT !.rt.pendingErrors = Append(@, cellIndex)]

\* Mutant: onFinished does not look at notebookFinished.
onFinishedNoGuard(es) ==
    Emit([es EXCEPT !.ce.notebookFinished = TRUE, !.ce.overridden = FALSE,
                    !.ce.listening = FALSE, !.rt.trackerActive = FALSE],
         NotebookEvent("notebook-eval-completed"))

onFinished(es) ==
    IF es.ce.notebookFinished THEN es
    ELSE Emit([es EXCEPT !.ce.notebookFinished = TRUE,
                         !.ce.overridden = FALSE,
                         !.ce.listening = FALSE,
                         !.rt.trackerActive = FALSE],
              NotebookEvent("notebook-eval-completed"))

\* The async tracker: a cell has completed when it was entered
\* and no continuation that resolves to it is pending.
hasCellCompleted(es, cellIndex) ==
    /\ cellIndex \in es.rt.tracked
    /\ es.rt.ops[cellIndex] = 0
    /\ cellIndex \notin es.rt.suspended
    /\ cellIndex \notin es.rt.rejected

\* The loop over the cells of awaitNotebookCompleted.
\* Mutant: the poll tick does not skip the cells already marked completed.
RECURSIVE pollCellsRepeats(_, _)
pollCellsRepeats(es, cellIndex) ==
    IF cellIndex >= NumCells THEN es
    ELSE pollCellsRepeats(
            IF hasCellCompleted(es, cellIndex)
            THEN Emit([es EXCEPT !.ce.cellsCompleted[cellIndex] = TRUE],
                      CellEvent("cell-eval-completed", cellIndex))
            ELSE es,
            cellIndex + 1)

\* Mutant: the poll tick takes a cell without pending operations as
\* completed, whether or not the cell was entered.
RECURSIVE pollCellsUntracked(_, _)
pollCellsUntracked(es, cellIndex) ==
    IF cellIndex >= NumCells THEN es
    ELSE pollCellsUntracked(
            IF ~es.ce.cellsCompleted[cellIndex] /\ es.rt.ops[cellIndex] = 0
                  /\ cellIndex \notin es.rt.suspended /\ cellIndex \notin es.rt.rejected
            THEN Emit([es EXCEPT !.ce.cellsCompleted[cellIndex] = TRUE],
                      CellEvent("cell-eval-completed", cellIndex))
            ELSE es,
            cellIndex + 1)

RECURSIVE pollCells(_, _)
pollCells(es, cellIndex) ==
    IF cellIndex >= NumCells THEN es
    ELSE pollCells(
            IF ~es.ce.cellsCompleted[cellIndex] /\ hasCellCompleted(es, cellIndex)
            THEN Emit([es EXCEPT !.ce.cellsCompleted[cellIndex] = TRUE],
                      CellEvent("cell-eval-completed", cellIndex))
            ELSE es,
            cellIndex + 1)

\* Mutant: the poll tick finishes once __end was called, whatever the cells.
awaitNotebookCompletedNoDrain(es) ==
    IF es.ce.notebookFinished THEN es
    ELSE IF es.ce.timeout /\ es.rt.expired
         THEN onFinished(reportErrorSync(es, getCurCellId({})))
         ELSE LET polled == pollCells(es, 0)
              IN  IF polled.ce.notebookCompleted
                  THEN onFinished(polled)
                  ELSE [polled EXCEPT !.rt.pollScheduled = TRUE]

\* Mutant: the poll tick does not look at the running time.
awaitNotebookCompletedNoTimeout(es) ==
    IF es.ce.notebookFinished THEN es
    ELSE LET polled == pollCells(es, 0)
             allCellsCompleted == \A k \in CellIdx : polled.ce.cellsCompleted[k]
         IN  IF polled.ce.notebookCompleted /\ allCellsCompleted
             THEN onFinished(polled)
             ELSE [polled EXCEPT !.rt.pollScheduled = TRUE]

awaitNotebookCompleted(es) ==
    IF es.ce.notebookFinished THEN es
    ELSE IF es.ce.timeout /\ es.rt.expired
         THEN onFinished(reportErrorSync(es, getCurCellId({})))
         ELSE LET polled == pollCells(es, 0)
                  allCellsCompleted == \A k \in CellIdx : polled.ce.cellsCompleted[k]
              IN  IF polled.ce.notebookCompleted /\ allCellsCompleted
                  THEN onFinished(polled)
                  ELSE [polled EXCEPT !.rt.pollScheduled = TRUE]

\* The synchronous run of user code ends: what the event loop runs next.
\* The first run is followed by the rest of evalGeneratedCode (the first
\* call of awaitNotebookCompleted), any run by the pending promise reactions.
endRun(es) ==
    [es EXCEPT !.rt.active = IF es.rt.firstTick THEN "tick"
                             ELSE IF es.rt.rejected # {} \/ es.rt.wrapperRejected THEN "micro"
                             ELSE "none",
               !.rt.body = "none",
               !.rt.cur = 0]

\* __cell
beginCell(es) ==
    IF es.ce.notebookFinished THEN endRun(es)
    ELSE [Emit(es, CellEvent("cell-eval-started", es.rt.cur))
            EXCEPT !.rt.trackerActive = TRUE,
                   !.rt.tracked = @ \cup {es.rt.cur},
                   !.rt.body = "code"]

\* __end
end(es) == [es EXCEPT !.ce.notebookCompleted = TRUE]

\* The statements of the generated code that follow the user code of a part:
\* the preamble is followed by __cell(0, ...), the code of a cell by
\* __capture_locals and then by __cell of the next cell, or by __end.
codeEnds(es) ==
    IF es.rt.body = "preamble" THEN [es EXCEPT !.rt.body = "start", !.rt.cur = 0]
    ELSE IF es.rt.cur < NumCells - 1
         THEN [es EXCEPT !.rt.body = "start", !.rt.cur = @ + 1]
         ELSE endRun(end(es))

\* Mutant: the __cell calls follow one another instead of being nested, so
\* that a cell that awaits hands control to the call of the next cell.
userAwaitFlat(es) ==
    LET awaiting == [es EXCEPT !.rt.suspended = {es.rt.cur}, !.rt.numSpawned = @ + 1]
    IN  IF es.rt.cur < NumCells - 1
        THEN [awaiting EXCEPT !.rt.body = "start", !.rt.cur = @ + 1]
        ELSE endRun(end(awaiting))

\* An await in the body of a cell: the body is suspended, and as the calls
\* of __cell are nested every call that led here returns.
userAwait(es) ==
    endRun([es EXCEPT !.rt.suspended = {es.rt.cur}, !.rt.numSpawned = @ + 1])

\* The context user code runs in.
curContext(es) == IF es.rt.body = "preamble" THEN {} ELSE {es.rt.cur}

\* The .catch handlers of __cell and of evalGeneratedCode.
catchHandler(es) ==
    LET cellId == IF es.rt.rejected # {} THEN getCurCellId(es.rt.rejected) ELSE getCurCellId({})
    IN  [onFinished(reportErrorSync(es, cellId))
            EXCEPT !.rt.rejected = {}, !.rt.wrapperRejected = FALSE, !.rt.active = "none"]

\* onUncaughtException, onUnhandledRejection
onUncaughtException(es, ctx) == onFinished(reportErrorSync(es, getCurCellId(ctx)))
onUnhandledRejection(es, ctx) == onFinished(reportErrorSync(es, getCurCellId(ctx)))

\* Mutant: a module that cannot be installed ends the evaluation.
ensureRequiredModulesFatal(es, ok) ==
    IF ok
    THEN [es EXCEPT !.ce.modCell = @ + 1,
                    !.ce.phase = IF es.ce.modCell + 1 >= NumCells THEN "genCode" ELSE @]
    ELSE onFinished([reportError(es, es.ce.modCell) EXCEPT !.ce.phase = "settled"])

\* ensureRequiredModules: one turn of the loop over the cells, from the
\* settling of npm.ensureRequiredModules for cell modCell to the next await.
ensureRequiredModules(es, ok) ==
    LET es0 == IF ok THEN es ELSE reportError(es, es.ce.modCell)
    IN  [es0 EXCEPT !.ce.modCell = @ + 1,
                    !.ce.phase = IF es.ce.modCell + 1 >= NumCells THEN "genCode" ELSE @]

\* Mutant: output is intercepted before the code is compiled.
evalGeneratedCodeOverridesFirst(es, compiles) ==
    IF ~compiles
    THEN [reportErrorSync(es, getCurCellId({})) EXCEPT !.ce.phase = "settled",
                                                       !.ce.overridden = TRUE]
    ELSE [es EXCEPT !.ce.phase = "executing", !.ce.overridden = TRUE,
                    !.ce.listening = TRUE, !.rt.active = "main",
                    !.rt.body = "preamble", !.rt.firstTick = TRUE]

\* evalGeneratedCode, up to the call of fn.
evalGeneratedCode(es, compiles) ==
    IF ~compiles
    THEN [reportErrorSync(es, getCurCellId({})) EXCEPT !.ce.phase = "settled"]
    ELSE [es EXCEPT !.ce.phase = "executing",
                    !.ce.overridden = TRUE,
                    !.ce.listening = TRUE,
                    !.rt.active = "main",
                    !.rt.body = "preamble",
                    !.rt.firstTick = TRUE]

(***************************************************************************)
(* Part II: actions. Each is one turn of the worker's event loop, or one   *)
(* stretch of synchronous code inside the turn that runs the notebook.     *)
(***************************************************************************)
InstallEval(es) ==
    /\ evaluator' = es.ce
    /\ runtime' = es.rt
    /\ events' = es.events
    /\ UNCHANGED <<supVars, genVars>>

InitEval ==
    /\ evaluator = [phase |-> "unconstructed", timeout |-> FALSE, modCell |-> 0,
                    code |-> FALSE, notebookFinished |-> FALSE,
                    notebookCompleted |-> FALSE,
                    cellsCompleted |-> [k \in CellIdx |-> FALSE],
                    numOutputs |-> 0, outputsCapped |-> FALSE,
                    overridden |-> FALSE, listening |-> FALSE]
    /\ runtime = [active |-> "none", body |-> "none", cur |-> 0, firstTick |-> FALSE,
                  pollScheduled |-> FALSE, expired |-> FALSE,
                  tracked |-> {}, trackerActive |-> FALSE,
                  ops |-> [k \in CellIdx |-> 0], suspended |-> {}, rejected |-> {},
                  wrapperRejected |-> FALSE, pendingErrors |-> <<>>,
                  numSpawned |-> 0, numWrites |-> 0, swallowed |-> FALSE]
    /\ events = <<>>

Idle == runtime.active = "none"
InUserCode == runtime.active = "main" /\ runtime.body \in {"preamble", "code"}
InCellCode == runtime.active = "main" /\ runtime.body = "code"

\* new CodeEvaluator(..., timeout): timeout is a number (TRUE) or undefined.
Construct(timeout) ==
    /\ evaluator.phase = "unconstructed"
    /\ InstallEval([EvalState EXCEPT !.ce.phase = "constructed", !.ce.timeout = timeout])

\* evalCode, up to the first await of evalSetup.
EvalCode ==
    /\ evaluator.phase = "constructed"
    /\ InstallEval([EvalState EXCEPT !.ce.phase = "ensureProject"])

\* evalSetup: ensureProject settles; a rejection ends in the catch of evalCode.
EnsureProject(ok) ==
    /\ evaluator.phase = "ensureProject"
    /\ InstallEval(IF ok THEN [EvalState EXCEPT !.ce.phase = "ensureModules"]
                   ELSE onFinished([EvalState EXCEPT !.ce.phase = "settled"]))

\* ensureRequiredModules: npm settles for the next cell.
EnsureRequiredModules(ok) ==
    /\ evaluator.phase = "ensureModules"
    /\ InstallEval(ensureRequiredModules(EvalState, ok))

\* The results of genCode: code, code with a diagnostic, a diagnostic and no
\* code (babelCompile returned no code), a rejection.
GenCodeOutcomes == {"code", "codeWithDiagnostics", "diagnostics", "throws"}

\* evalSetup: genCode settles, then the callbacks of evalCode, up to the call
\* of evalGeneratedCode. The notebooks that are enumerated get a diagnostic
\* next to their code only when no install has failed.
GenCode(outcome) ==
    /\ evaluator.phase = "genCode"
    /\ outcome = "codeWithDiagnostics" => events = <<>>
    /\ InstallEval(
         CASE outcome = "code" ->
                [EvalState EXCEPT !.ce.phase = "evalGenerated", !.ce.code = TRUE]
           [] outcome = "codeWithDiagnostics" ->
                [reportError(EvalState, getCurCellId({}))
                    EXCEPT !.ce.phase = "evalGenerated", !.ce.code = TRUE]
           [] outcome = "diagnostics" ->
                onFinished([reportError(EvalState, getCurCellId({})) EXCEPT !.ce.phase = "settled"])
           [] outcome = "throws" ->
                onFinished([EvalState EXCEPT !.ce.phase = "settled"]))

\* evalGeneratedCode: vm.runInThisContext and, if it returns, the start of fn.
EvalGeneratedCode(compiles) ==
    /\ evaluator.phase = "evalGenerated"
    /\ InstallEval(evalGeneratedCode(EvalState, compiles))

\* The numbers of repetitions of an output statement of user code: a single
\* call, a loop that just reaches the cap, a loop that goes beyond it.
Times == {1, MAX_OUTPUTS, MAX_OUTPUTS + 2}

\* The notebooks that are enumerated have their loop, if any, as the first
\* statement of the first cell.
LoopAllowed ==
    /\ runtime.body = "code"
    /\ runtime.cur = 0
    /\ runtime.firstTick
    /\ runtime.numWrites = 0
    /\ runtime.numSpawned = 0

\* User code calls display or writes to stdout or stderr, once or in a loop.
UserOutput(kind, times) ==
    /\ InUserCode
    /\ runtime.numWrites < MaxWrites
    /\ times = 1 \/ LoopAllowed
    /\ InstallEval(userOutputs([EvalState EXCEPT !.rt.numWrites = @ + 1],
                               kind, curContext(EvalState), times))

\* User code of a cell starts an asynchronous operation.
UserSpawn ==
    /\ InCellCode
    /\ runtime.numSpawned < MaxOps
    /\ InstallEval([EvalState EXCEPT !.rt.ops[runtime.cur] = @ + 1, !.rt.numSpawned = @ + 1])

\* User code of a cell awaits: the cell body is suspended, the calls of
\* __cell that led here return.
UserAwait ==
    /\ InCellCode
    /\ runtime.numSpawned < MaxOps
    /\ InstallEval(userAwait(EvalState))

\* User code throws: the promise of the cell body (of the wrapper, when the
\* preamble throws) is rejected.
UserThrow ==
    /\ InUserCode
    /\ InstallEval(endRun(IF runtime.body = "preamble"
                          THEN [EvalState EXCEPT !.rt.wrapperRejected = TRUE]
                          ELSE [EvalState EXCEPT !.rt.rejected = {runtime.cur}]))

\* User code of the preamble or of a cell runs to its end.
CodeEnds ==
    /\ InUserCode
    /\ InstallEval(codeEnds(EvalState))

BeginCell ==
    /\ runtime.active = "main"
    /\ runtime.body = "start"
    /\ InstallEval(beginCell(EvalState))

\* awaitNotebookCompleted: the call at the end of evalGeneratedCode, or the
\* callback of setTimeout(this.awaitNotebookCompleted, 0).
PollTick ==
    /\ \/ runtime.active = "tick"
       \/ Idle /\ runtime.pollScheduled
    /\ LET es0 == [EvalState EXCEPT !.rt.pollScheduled = FALSE, !.rt.firstTick = FALSE]
           es1 == awaitNotebookCompleted(es0)
       IN  InstallEval([es1 EXCEPT !.rt.active =
                           IF runtime.active = "tick"
                              /\ (runtime.rejected # {} \/ runtime.wrapperRejected)
                           THEN "micro" ELSE "none"])

\* The reaction to the rejected promise of a cell body or of the wrapper.
CellRejected ==
    /\ runtime.active = "micro"
    /\ InstallEval(catchHandler(EvalState))

\* The awaited promise of a suspended cell body settles: the body goes on.
ResumeBody ==
    /\ Idle
    /\ runtime.suspended # {}
    /\ InstallEval([EvalState EXCEPT !.rt.active = "main",
                                     !.rt.body = "code",
                                     !.rt.cur = getCurCellId(runtime.suspended),
                                     !.rt.suspended = {}])

\* The callback of an asynchronous operation of cell k runs.
OpReturns(k) ==
    /\ Idle
    /\ runtime.ops[k] > 0
    /\ InstallEval([EvalState EXCEPT !.rt.ops[k] = @ - 1])

OpOutputs(k, kind) ==
    /\ Idle
    /\ runtime.ops[k] > 0
    /\ runtime.numWrites < MaxWrites
    /\ InstallEval(userOutput([EvalState EXCEPT !.rt.ops[k] = @ - 1, !.rt.numWrites = @ + 1],
                              kind, {k}))

\* The callback throws, or rejects a promise nobody handles; the context the
\* process listener runs in resolves to the cell (ctx = {k}) or to none.
OpThrows(k, ctx) ==
    /\ Idle
    /\ runtime.ops[k] > 0
    /\ LET es0 == [EvalState EXCEPT !.rt.ops[k] = @ - 1]
       IN  InstallEval(IF evaluator.listening THEN onUncaughtException(es0, ctx) ELSE es0)

OpRejects(k, ctx) ==
    /\ Idle
    /\ runtime.ops[k] > 0
    /\ LET es0 == [EvalState EXCEPT !.rt.ops[k] = @ - 1]
       IN  InstallEval(IF evaluator.listening THEN onUnhandledRejection(es0, ctx) ELSE es0)

\* formatErrorMessage settles for a reportError that was not awaited: the
\* rest of reportError calls onError.
DeliverError(i) ==
    /\ Idle
    /\ i \in DOMAIN runtime.pendingErrors
    /\ LET es0 == [EvalState EXCEPT !.rt.pendingErrors =
                      SubSeq(@, 1, i - 1) \o SubSeq(@, i + 1, Len(@))]
       IN  InstallEval(reportError(es0, runtime.pendingErrors[i]))

\* The running time exceeds the timeout.
ClockPasses ==
    /\ evaluator.phase = "executing"
    /\ evaluator.timeout
    /\ ~runtime.expired
    /\ runtime.active \in {"none", "tick"}
    /\ InstallEval([EvalState EXCEPT !.rt.expired = TRUE])

NextEval ==
    \/ \E timeout \in BOOLEAN : Construct(timeout)
    \/ EvalCode
    \/ \E ok \in BOOLEAN : EnsureProject(ok)
    \/ \E ok \in BOOLEAN : EnsureRequiredModules(ok)
    \/ \E outcome \in GenCodeOutcomes : GenCode(outcome)
    \/ \E compiles \in BOOLEAN : EvalGeneratedCode(compiles)
    \/ \E kind \in {"display", "stdout", "stderr"}, times \in Times : UserOutput(kind, times)
    \/ UserSpawn
    \/ UserAwait
    \/ UserThrow
    \/ CodeEnds
    \/ BeginCell
    \/ PollTick
    \/ CellRejected
    \/ ResumeBody
    \/ \E k \in CellIdx : OpReturns(k)
    \/ \E k \in CellIdx, kind \in {"display", "stdout", "stderr"} : OpOutputs(k, kind)
    \/ \E k \in CellIdx : \E ctx \in {{}, {k}} : OpThrows(k, ctx)
    \/ \E k \in CellIdx : \E ctx \in {{}, {k}} : OpRejects(k, ctx)
    \/ \E i \in 1..(NumCells + MaxOps + 2) : DeliverError(i)
    \/ ClockPasses

(***************************************************************************)
(* Part III: the code generator.                                           *)
(* Lines of generated code are numbered from 0, as generatedCodeOffset     *)
(* counts them. A line of generated code is a record: its kind, and for a  *)
(* line made from a cell the id of the cell, its index among the code      *)
(* cells and the line of the cell's text it was made from.                 *)
(***************************************************************************)
Texts ==
    {<<"blank">>} \cup UNION {[1..n -> {"code", "import"}] : n \in 1..MaxLines}

Cell(id, type, scope, text) == [id |-> id, type |-> type, scope |-> scope, text |-> text]

\* The cells a notebook can be extended with: markdown cells have no scope
\* and their text is never read.
NewCells(id) ==
    {Cell(id, "code", scope, text) : scope \in {"global", "local"}, text \in Texts}
        \cup {Cell(id, "markdown", "global", <<"code">>)}

\* cells.filter(cell => cell.getCellType() === CellType.Code)
CodeCellsOf(cells) == SelectSeq(cells, LAMBDA cell : cell.type = "code")

\* CodeEvaluator constructor: this.cellIds
cellIds(allCells) ==
    LET cells == CodeCellsOf(allCells)
    IN  [cellIndex \in 0..(Len(cells) - 1) |-> cells[cellIndex + 1].id]

isModuleImportStatement(line) == line = "import"

GenLine(kind, cellId, cellIndex, line) ==
    [kind |-> kind, cell |-> cellId, index |-> cellIndex, line |-> line]

Scaffold(kind) == GenLine(kind, 0, 0, 0)

Repeat(line, times) == [i \in 1..times |-> line]

\* Numbers of lines of the constant pieces of code.
NumLinesExportPre == 13
NumLinesEvalPre == 1
NumLinesExportPost == 6
NumLinesEvalPost == 2
NumLinesLocalPre == 1

\* SourceMapGenerator.addMappings: an entry for each line of the text, from
\* the start line on.
addMappings(sourceMap, cellId, cellStartLine, text) ==
    sourceMap \cup {[gen |-> cellStartLine + j, cell |-> cellId, line |-> j] :
                       j \in 0..(Len(text) - 1)}

\* Mutant: of the import statements of a cell only the first is hoisted.
moduleImportLinesDedup(cell, cellIndex) ==
    LET js == {j \in 1..Len(cell.text) : isModuleImportStatement(cell.text[j])}
    IN  IF js = {} THEN <<>>
        ELSE <<GenLine("hoisted", cell.id, cellIndex,
                       (CHOOSE j \in js : \A i \in js : j <= i) - 1)>>

\* The module import statements of a cell, hoisted.
moduleImportLines(cell, cellIndex) ==
    LET js == {j \in 1..Len(cell.text) : isModuleImportStatement(cell.text[j])}
        RECURSIVE from(_)
        from(j) == IF j > Len(cell.text) THEN <<>>
                   ELSE (IF j \in js THEN <<GenLine("hoisted", cell.id, cellIndex, j - 1)>>
                         ELSE <<>>) \o from(j + 1)
    IN  from(1)

\* The state of internalGenCode: code, generatedCodeOffset, the mappings.
GenState(code, offset, sourceMap) ==
    [code |-> code, offset |-> offset, sourceMap |-> sourceMap]

\* Mutant: empty lines are not counted.
computeNumLinesNonEmpty(lines) ==
    Cardinality({i \in DOMAIN lines : lines[i].kind # "blanked"})

\* computeNumLines: the number of line feeds of a piece of code, each line
\* of which ends with one.
computeNumLines(lines) == Len(lines)

append(gs, lines) ==
    [gs EXCEPT !.code = @ \o lines, !.offset = @ + computeNumLines(lines)]

RECURSIVE hoistImports(_, _, _)
hoistImports(gs, cells, i) ==
    IF i > Len(cells) THEN gs
    ELSE hoistImports(append(gs, moduleImportLines(cells[i], i - 1)), cells, i + 1)

\* cellCode: the lines of the text with the import statements blanked,
\* wrapped for a cell of local scope.
cellCode(cell, cellIndex) ==
    LET codeLines == [j \in 1..Len(cell.text) |->
                         GenLine(IF isModuleImportStatement(cell.text[j])
                                 THEN "blanked" ELSE "source",
                                 cell.id, cellIndex, j - 1)]
    IN  IF cell.scope = "local"
        THEN Repeat(Scaffold("localPre"), NumLinesLocalPre) \o codeLines
                \o <<Scaffold("localPost")>>
        ELSE codeLines

\* Mutant: a cell with empty text gets no code.
genCellSkipEmpty(gs, cell, cellIndex, forExport) ==
    IF cell.text = <<"blank">> THEN gs
    ELSE LET opened == IF forExport THEN gs
                       ELSE append(gs, <<GenLine("beginCell", cell.id, cellIndex, 0)>>)
             cellStartLine == opened.offset
             body == append(opened, cellCode(cell, cellIndex))
             captured == IF ~forExport /\ cell.scope # "local"
                         THEN append(body, <<GenLine("captureLocals", cell.id, cellIndex, 0)>>)
                         ELSE body
         IN  [captured EXCEPT !.sourceMap = addMappings(@, cell.id, cellStartLine, cell.text)]

\* Mutant: the locals of every cell are captured, whatever its scope.
genCellCaptureAll(gs, cell, cellIndex, forExport) ==
    LET opened == IF forExport THEN gs
                  ELSE append(gs, <<GenLine("beginCell", cell.id, cellIndex, 0)>>)
        cellStartLine == opened.offset
        body == append(opened, cellCode(cell, cellIndex))
        captured == IF ~forExport
                    THEN append(body, <<GenLine("captureLocals", cell.id, cellIndex, 0)>>)
                    ELSE body
    IN  [captured EXCEPT !.sourceMap = addMappings(@, cell.id, cellStartLine, cell.text)]

\* One turn of the loop that generates the code of the cells.
genCell(gs, cell, cellIndex, forExport) ==
    LET opened == IF forExport THEN gs
                  ELSE append(gs, <<GenLine("beginCell", cell.id, cellIndex, 0)>>)
        cellStartLine == opened.offset
        body == append(opened, cellCode(cell, cellIndex))
        captured == IF ~forExport /\ cell.scope # "local"
                    THEN append(body, <<GenLine("captureLocals", cell.id, cellIndex, 0)>>)
                    ELSE body
    IN  [captured EXCEPT !.sourceMap = addMappings(@, cell.id, cellStartLine, cell.text)]

RECURSIVE genCells(_, _, _, _)
genCells(gs, cells, cellIndex, forExport) ==
    IF cellIndex >= Len(cells) THEN gs
    ELSE genCells(genCell(gs, cells[cellIndex + 1], cellIndex, forExport),
                  cells, cellIndex + 1, forExport)

\* Mutant: the wrapper of the last cell is not closed.
internalGenCodeUnbalanced(allCells, forExport) ==
    LET cells == CodeCellsOf(allCells)
        hoisted == hoistImports(GenState(<<>>, 0, {}), cells, 1)
        pre == append(hoisted, Repeat(Scaffold("preamble"),
                                      IF forExport THEN NumLinesExportPre
                                      ELSE NumLinesEvalPre))
        body == genCells(pre, cells, 0, forExport)
        ended == IF forExport THEN body
                 ELSE append(append(body, <<Scaffold("endOfCells")>>),
                             Repeat(Scaffold("closer"),
                                    IF cells = <<>> THEN 0 ELSE Len(cells) - 1))
        post == Repeat(Scaffold("post"),
                       IF forExport THEN NumLinesExportPost ELSE NumLinesEvalPost)
    IN  [ended EXCEPT !.code = @ \o post, !.offset = @ + NumLinesEvalPre]

\* internalGenCode. After the cells generatedCodeOffset is raised by the
\* number of lines of EVAL_PRE_CODE whatever was appended.
internalGenCode(allCells, forExport) ==
    LET cells == CodeCellsOf(allCells)
        hoisted == hoistImports(GenState(<<>>, 0, {}), cells, 1)
        pre == append(hoisted, Repeat(Scaffold("preamble"),
                                      IF forExport THEN NumLinesExportPre
                                      ELSE NumLinesEvalPre))
        body == genCells(pre, cells, 0, forExport)
        ended == IF forExport THEN body
                 ELSE append(append(body, <<Scaffold("endOfCells")>>),
                             Repeat(Scaffold("closer"), Len(cells)))
        post == Repeat(Scaffold("post"),
                       IF forExport THEN NumLinesExportPost ELSE NumLinesEvalPost)
    IN  [ended EXCEPT !.code = @ \o post, !.offset = @ + NumLinesEvalPre]

\* CodeEvaluator.__capture_locals, called by the generated code: the cells
\* whose getter of locals is kept in localsFnCache, which are the cells whose
\* locals awaitNotebookCompleted captures once more when they complete.
localsFnCache(code) ==
    {code[g].index : g \in {h \in DOMAIN code : code[h].kind = "captureLocals"}}

NotGenerated == [done |-> FALSE, forExport |-> FALSE, code |-> <<>>, sourceMap |-> {}]

InitGen ==
    /\ notebook = <<>>
    /\ generated = NotGenerated

\* The notebook gets one more cell.
AddCell(cell) ==
    /\ ~generated.done
    /\ Len(notebook) < MaxNotebookCells
    /\ cell.id = Len(notebook) + 1
    /\ notebook' = Append(notebook, cell)
    /\ UNCHANGED <<generated, supVars, evalVars>>

\* genCode (forExport = FALSE) or exportCode (forExport = TRUE) is called.
InternalGenCode(forExport) ==
    /\ ~generated.done
    /\ LET gs == internalGenCode(notebook, forExport)
       IN  generated' = [done |-> TRUE, forExport |-> forExport,
                         code |-> gs.code, sourceMap |-> gs.sourceMap]
    /\ UNCHANGED <<notebook, supVars, evalVars>>

NextGen ==
    \/ \E cell \in NewCells(Len(notebook) + 1) : AddCell(cell)
    \/ \E forExport \in BOOLEAN : InternalGenCode(forExport)

(***************************************************************************)
(* Specifications: the supervisor, the evaluator, and the evaluator with   *)
(* an event loop that runs every callback that is pending.                 *)
(***************************************************************************)
Init == InitSup /\ InitEval /\ InitGen

Spec == Init /\ [][Next]_vars

SpecEval == Init /\ [][NextEval]_vars

FairSpecEval == SpecEval /\ WF_vars(NextEval)

SpecGen == Init /\ [][NextGen]_vars

(***************************************************************************)
(* Part II: claims about the evaluator.                                    *)
(***************************************************************************)
\* C2: in the sequence of events of the evaluator nothing follows
\* notebook-eval-completed.
C2_CompletedIsLast ==
    \A i \in DOMAIN events :
        events[i].type = "notebook-eval-completed" => i = Len(events)

\* C3: every evaluation started with evalCode eventually is finished and
\* has raised notebook-eval-completed.
C3_EvalCodeEventuallyFinishes ==
    (evaluator.phase \notin {"unconstructed", "constructed"})
        ~> (evaluator.notebookFinished
            /\ \E i \in DOMAIN events : events[i].type = "notebook-eval-completed")

\* Positions of events.
Entries(type, c) ==
    {i \in DOMAIN events : events[i].type = type /\ events[i].cell = c}

OutputTypes == {"display", "error"}

OutputEntries(c) ==
    {i \in DOMAIN events : events[i].type \in OutputTypes /\ events[i].cell = c}

TerminalEntries == {i \in DOMAIN events : events[i].type = "notebook-eval-completed"}

\* The evaluation ran the cells and finished, and no error, timeout or cap
\* occurred.
FinishedWithoutError ==
    /\ evaluator.phase = "executing"
    /\ evaluator.notebookFinished
    /\ ~evaluator.outputsCapped
    /\ ~runtime.expired
    /\ runtime.pendingErrors = <<>>
    /\ \A i \in DOMAIN events : events[i].type # "error"

\* C11: when a notebook was evaluated without error, the sequence of events
\* is, cell after cell in cell order, one cell-eval-started, the displays of
\* the cell, one cell-eval-completed, and after the last cell exactly one
\* notebook-eval-completed.
C11_EventSequenceByCell ==
    FinishedWithoutError =>
        /\ TerminalEntries = {Len(events)}
        /\ events[Len(events)].n = 1
        /\ \A c \in CellIdx :
              \E s \in Entries("cell-eval-started", c), e \in Entries("cell-eval-completed", c) :
                  /\ Entries("cell-eval-started", c) = {s}
                  /\ Entries("cell-eval-completed", c) = {e}
                  /\ events[s].n = 1
                  /\ events[e].n = 1
                  /\ \A i \in OutputEntries(c) : s < i /\ i < e
                  /\ \A d \in CellIdx : \A i \in Entries("cell-eval-started", d) :
                        c < d => e < i

\* C12: every display or error event of a cell is preceded by the
\* cell-eval-started event of that cell.
C12_StartedBeforeOutput ==
    \A c \in CellIdx : \A i \in OutputEntries(c) :
        \E s \in Entries("cell-eval-started", c) : s < i

\* C13: no display or error event of a cell follows the cell-eval-completed
\* event of that cell.
C13_NoOutputAfterCellCompleted ==
    \A c \in CellIdx : \A e \in Entries("cell-eval-completed", c) :
        \A i \in OutputEntries(c) : i < e

\* Number of events of a type, over all cells.
RECURSIVE TotalUpTo(_, _)
TotalUpTo(type, last) ==
    IF last = 0 THEN 0
    ELSE TotalUpTo(type, last - 1) + (IF events[last].type = type THEN events[last].n ELSE 0)

Total(type) == TotalUpTo(type, Len(events))

EventType(kind) == IF kind = "stderr" THEN "error" ELSE "display"

\* What `times` calls of an output of user code must leave.
OutputsMade(kind, times) ==
    LET room == MAX_OUTPUTS - evaluator.numOutputs
        made == IF evaluator.outputsCapped THEN 0 ELSE IF times <= room THEN times ELSE room
    IN  /\ evaluator'.numOutputs = evaluator.numOutputs + made
        /\ Total(EventType(kind))' = Total(EventType(kind)) + made
        /\ evaluator'.outputsCapped = (evaluator.outputsCapped \/ times > room)
        /\ Total("output-capped")' =
              Total("output-capped") + (IF ~evaluator.outputsCapped /\ times > room THEN 1 ELSE 0)

\* Only user code that makes an output raises runtime.numWrites.
C14_OutputStep ==
    runtime'.numWrites # runtime.numWrites =>
        \A kind \in {"display", "stdout", "stderr"} :
            (kind = "display" \/ evaluator.overridden) =>
                /\ \A times \in Times : UserOutput(kind, times) => OutputsMade(kind, times)
                /\ \A k \in CellIdx : OpOutputs(k, kind) => OutputsMade(kind, 1)

C14_CapState ==
    /\ evaluator.numOutputs <= MAX_OUTPUTS
    /\ Total("display") <= evaluator.numOutputs
    /\ Total("output-capped") = (IF evaluator.outputsCapped THEN 1 ELSE 0)
    /\ evaluator.outputsCapped => evaluator.numOutputs = MAX_OUTPUTS
    /\ \A i, j \in DOMAIN events :
          (events[i].type = "output-capped" /\ i < j) => events[j].type # "display"

C15_CappedWriteReachesStream == ~runtime.swallowed

LastEventIs(type) == events # <<>> /\ events[Len(events)].type = type

C16_TimeoutStep ==
    (PollTick /\ ~evaluator.notebookFinished /\ evaluator.timeout) =>
        IF runtime.expired
        THEN /\ evaluator'.notebookFinished
             /\ LastEventIs("notebook-eval-completed")'
             /\ Total("notebook-eval-completed")' = 1
             /\ runtime'.pendingErrors = Append(runtime.pendingErrors, 0)
             /\ evaluator'.cellsCompleted = evaluator.cellsCompleted
             /\ ~runtime'.pollScheduled
        ELSE runtime'.pendingErrors = runtime.pendingErrors

C16_NoTickAfterFinished ==
    evaluator.notebookFinished => (runtime'.pollScheduled => runtime.pollScheduled)

\* C16: with a timeout configured, a poll tick that finds the running time
\* above the timeout reports an error and finishes the evaluation with
\* notebook-eval-completed, whatever asynchronous work of the cells is
\* outstanding, and a tick that does not find it so reports no error; once
\* the evaluation has finished no tick is scheduled.
C16_TimeoutFinishes == [][C16_TimeoutStep /\ C16_NoTickAfterFinished]_vars

C16_Witness ==
    /\ evaluator.notebookFinished
    /\ runtime.expired
    /\ LastEventIs("notebook-eval-completed")
    /\ runtime.pendingErrors = <<0>>
    /\ runtime.rejected = {} /\ ~runtime.wrapperRejected
    /\ ~runtime.pollScheduled
    /\ \E k \in CellIdx : runtime.ops[k] > 0 /\ ~evaluator.cellsCompleted[k]

\* C17: once a cell body has thrown or rejected, or the evaluation has
\* finished on a failure, no cell-eval-started and no cell-eval-completed
\* event is emitted any more.
C17_NoDrainAfterFailure ==
    [][(runtime.rejected # {} \/ evaluator.notebookFinished) =>
          /\ Total("cell-eval-started")' = Total("cell-eval-started")
          /\ Total("cell-eval-completed")' = Total("cell-eval-completed")]_vars

\* evalGeneratedCode was called (code was generated) and returned from its
\* catch of vm.runInThisContext.
CodeSetupFailed == evaluator.phase = "settled" /\ evaluator.code

\* C18: when the generated code does not compile, the error is reported for
\* the first cell, no cell is started, stdout and stderr are not intercepted,
\* no process listener is added and no poll tick is ever scheduled.
C18_CodeSetupFailureAborts ==
    CodeSetupFailed =>
        /\ \/ runtime.pendingErrors = <<0>>
           \/ /\ runtime.pendingErrors = <<>>
              /\ LastEventIs("error")
              /\ events[Len(events)].cell = 0
        /\ Total("cell-eval-started") = 0
        /\ Total("cell-eval-completed") = 0
        /\ ~evaluator.overridden
        /\ ~evaluator.listening
        /\ ~runtime.pollScheduled
        /\ runtime.active = "none"
        /\ runtime.tracked = {}

C18_Witness ==
    /\ CodeSetupFailed
    /\ runtime.pendingErrors = <<>>
    /\ LastEventIs("error")

\* A failed install leaves what a successful one leaves, and the error
\* event of the cell.
C19_InstallFailureStep ==
    EnsureRequiredModules(FALSE) =>
        LET installed == ensureRequiredModules(EvalState, TRUE)
        IN  /\ evaluator' = installed.ce
            /\ runtime' = installed.rt
            /\ events' = Emit(EvalState, CellEvent("error", evaluator.modCell)).events
            /\ Total("error")' = Total("error") + 1
            /\ ~evaluator'.notebookFinished
            /\ evaluator'.phase \in {"ensureModules", "genCode"}

\* C19: when the modules of a cell cannot be installed, an error is reported
\* for that cell and the evaluation goes on as after a successful install:
\* with the install for the next cell, or after the last cell with code
\* generation.
C19_ModuleInstallFailureNonFatal == [][C19_InstallFailureStep]_vars

\* The install failed for the last cell only, and every cell was evaluated.
C19_Witness ==
    /\ events # <<>>
    /\ events[1].type = "error" /\ events[1].cell = NumCells - 1
    /\ evaluator.modCell = NumCells
    /\ Total("cell-eval-started") = NumCells
    /\ Total("cell-eval-completed") = NumCells
    /\ LastEventIs("notebook-eval-completed")

\* C20: when genCode returns a diagnostic, it is reported as an error and
\* the evaluation goes on to evalGeneratedCode, where the cells are run.
C20_DiagnosticsNonFatal ==
    [][\A outcome \in {"codeWithDiagnostics", "diagnostics"} :
          GenCode(outcome) =>
              /\ Total("error")' = Total("error") + 1
              /\ evaluator'.phase = "evalGenerated"
              /\ ~evaluator'.notebookFinished]_vars

C23_StartedBeforeCompleted ==
    \A i \in DOMAIN events :
        events[i].type = "cell-eval-completed" =>
            /\ evaluator.cellsCompleted[events[i].cell]
            /\ events[i].cell \in runtime.tracked
            /\ \E j \in 1..(i - 1) :
                  events[j].type = "cell-eval-started" /\ events[j].cell = events[i].cell

C23_CompletionStep ==
    \A c \in CellIdx :
        (~evaluator.cellsCompleted[c] /\ evaluator'.cellsCompleted[c]) =>
            /\ c \in runtime.tracked
            /\ Entries("cell-eval-started", c) # {}
            /\ runtime.active \in {"tick", "none"}
            /\ c \notin runtime.suspended
            /\ runtime.ops[c] = 0

C30_CompletedAtMostOnce ==
    /\ Total("notebook-eval-completed") = (IF evaluator.notebookFinished THEN 1 ELSE 0)
    /\ onFinished(onFinished(EvalState)) = onFinished(EvalState)
    /\ evaluator.notebookFinished => onFinished(EvalState) = EvalState

\* Two failures were reported, each followed by a call of onFinished.
C30_Witness ==
    /\ evaluator.notebookFinished
    /\ Len(runtime.pendingErrors) >= 2
    /\ Total("notebook-eval-completed") = 1

\* Number of events of a type that carry the id of cell c.
RECURSIVE CellTotalUpTo(_, _, _)
CellTotalUpTo(type, c, last) ==
    IF last = 0 THEN 0
    ELSE CellTotalUpTo(type, c, last - 1)
            + (IF events[last].type = type /\ events[last].cell = c
               THEN events[last].n ELSE 0)

CellTotal(type, c) == CellTotalUpTo(type, c, Len(events))

C31_CompletedEventPerFlag ==
    \A c \in CellIdx :
        CellTotal("cell-eval-completed", c) = (IF evaluator.cellsCompleted[c] THEN 1 ELSE 0)

C31_FlagStep ==
    \A c \in CellIdx :
        /\ evaluator.cellsCompleted[c] => evaluator'.cellsCompleted[c]
        /\ (~evaluator.cellsCompleted[c] /\ evaluator'.cellsCompleted[c]) =>
              /\ PollTick
              /\ hasCellCompleted(EvalState, c)
              /\ CellTotal("cell-eval-completed", c)' = 1

\* C31: cellsCompleted[i] starts false and never goes back to false; it is
\* set only by a poll tick at which the tracker reports cell i completed, and
\* cell-eval-completed is emitted for a cell exactly when its entry is set,
\* so at most once.
C31_CompletionVectorMonotonic ==
    []C31_CompletedEventPerFlag /\ [][C31_FlagStep]_vars

\* The cells were completed at different ticks and the evaluation finished.
C31_Witness ==
    /\ evaluator.notebookFinished
    /\ \A c \in CellIdx : evaluator.cellsCompleted[c]
    /\ runtime.numSpawned > 0
    /\ Total("cell-eval-completed") = NumCells
    /\ Total("error") = 0 /\ runtime.pendingErrors = <<>>

\* A step of the executing evaluator that finishes the evaluation and
\* reports no error.
FinishesWithoutError ==
    /\ evaluator.phase = "executing"
    /\ ~evaluator.notebookFinished
    /\ evaluator'.notebookFinished
    /\ runtime'.pendingErrors = runtime.pendingErrors

\* C32: the evaluation of the generated code finishes without an error or a
\* timeout only in a poll tick that finds __end called and every cell
\* completed; every cell has its cell-eval-completed before the
\* notebook-eval-completed the tick emits.
C32_FinishedOnlyWhenDrained ==
    [][FinishesWithoutError =>
          /\ PollTick
          /\ evaluator.notebookCompleted
          /\ \A c \in CellIdx :
                /\ evaluator'.cellsCompleted[c]
                /\ CellTotal("cell-eval-completed", c)' = 1
          /\ LastEventIs("notebook-eval-completed")'
          /\ Total("notebook-eval-completed")' = 1]_vars

\* The last cell was completed by the tick that finished the evaluation.
C32_Witness ==
    /\ FinishedWithoutError
    /\ evaluator.notebookCompleted
    /\ Len(events) >= 2
    /\ events[Len(events)].type = "notebook-eval-completed"
    /\ events[Len(events) - 1].type = "cell-eval-completed"

Started(c) == Entries("cell-eval-started", c) # {}

\* The statements of cell c have not all run: they run now, or wait.
InBody(c) ==
    \/ runtime.active = "main" /\ runtime.body = "code" /\ runtime.cur = c
    \/ c \in runtime.suspended

\* C33: cell-eval-started is emitted at most once per cell and in the order
\* of the cell indices; a cell is started only when the statements of the
\* cell before it have all run, and __end is called only when every cell was
\* started and the statements of the last cell have run.
C33_CellsStartInOrder ==
    /\ \A i, j \in DOMAIN events :
          (events[i].type = "cell-eval-started" /\ events[j].type = "cell-eval-started"
              /\ i < j) => events[i].cell < events[j].cell
    /\ \A c \in CellIdx :
          /\ CellTotal("cell-eval-started", c) <= 1
          /\ InBody(c) => Started(c) /\ \A d \in CellIdx : d > c => ~Started(d)
          /\ (Started(c) /\ c > 0) => Started(c - 1)
          /\ evaluator.notebookCompleted => Started(c) /\ ~InBody(c)

\* Every cell was started, one of them after an await.
C33_Witness ==
    /\ Total("cell-eval-started") = NumCells
    /\ evaluator.notebookCompleted
    /\ runtime.numSpawned > 0
    /\ runtime.tracked = CellIdx

\* The cell the tracker resolves the context of an output to: the cell of
\* the callback that runs, else the cell whose statements run, else none.
EmittingCell ==
    IF Idle THEN {k \in CellIdx : runtime'.ops[k] < runtime.ops[k]}
    ELSE curContext(EvalState)

\* The events an output has just made.
JustEmitted ==
    {i \in DOMAIN events' :
        /\ events'[i].type \in {"display", "error"}
        /\ i \in DOMAIN events => events'[i].n > events[i].n}

\* C37: an event made by display or by a write to stdout or stderr carries
\* the cell the context of the output resolves to, which for code of a cell
\* nested in the calls of earlier cells is that cell, and the first cell
\* when the context resolves to none; every display and error event
\* carries the index of a code cell.
C37_OutputStep ==
    runtime'.numWrites # runtime.numWrites =>
        \A i \in JustEmitted :
            /\ EmittingCell # {} => events'[i].cell \in EmittingCell
            /\ EmittingCell = {} => events'[i].cell = 0

C37_CellOfNotebook ==
    \A i \in DOMAIN events :
        events[i].type \in {"display", "error"} => events[i].cell \in CellIdx

Resolve(g) == {m \in generated.sourceMap : m.gen = g}

\* The lines of the generated code made from the lines of a cell's text.
FromSource == {"source", "blanked"}

GeneratedLines == 1..Len(generated.code)

\* C21: every line of the generated code that holds a line of the text of a
\* code cell is mapped to the id of that cell and to that line of its text,
\* and the entries of a cell are as many as the lines of its text.
C21_SourceMapRoundTrip ==
    generated.done =>
        /\ \A g \in GeneratedLines :
              generated.code[g].kind \in FromSource =>
                  Resolve(g - 1) = {[gen |-> g - 1, cell |-> generated.code[g].cell,
                                     line |-> generated.code[g].line]}
        /\ \A i \in DOMAIN notebook :
              notebook[i].type = "code" =>
                  Cardinality({m \in generated.sourceMap : m.cell = notebook[i].id})
                      = Len(notebook[i].text)

\* C22: a line of the generated code that was not made from the text of a
\* cell has no entry in the source map, and no line has entries of two cells.
C22_ScaffoldingUnmapped ==
    generated.done =>
        \A g \in GeneratedLines :
            /\ generated.code[g].kind \notin FromSource => Resolve(g - 1) = {}
            /\ \A m1, m2 \in Resolve(g - 1) : m1.cell = m2.cell

\* The lines of the generated code that open the cell with the given id.
BeginCellLines(cellId) ==
    {g \in GeneratedLines :
        generated.code[g].kind = "beginCell" /\ generated.code[g].cell = cellId}

\* C24: the code generated for evaluation opens every code cell, also one
\* with empty text, with exactly one __cell call that carries the position
\* of the cell among the code cells and its id, and the evaluator's cellIds
\* holds that id at that position; no other __cell call is generated.
C24_CellIndexDenotesSameCell ==
    (generated.done /\ ~generated.forExport) =>
        LET cells == CodeCellsOf(notebook)
        IN  /\ \A k \in 0..(Len(cells) - 1) :
                  /\ Cardinality(BeginCellLines(cells[k + 1].id)) = 1
                  /\ \A g \in BeginCellLines(cells[k + 1].id) : generated.code[g].index = k
                  /\ cellIds(notebook)[k] = cells[k + 1].id
            /\ \A g \in GeneratedLines :
                  generated.code[g].kind = "beginCell" =>
                      /\ generated.code[g].index \in DOMAIN cellIds(notebook)
                      /\ cellIds(notebook)[generated.code[g].index] = generated.code[g].cell

\* A markdown cell, then a code cell with empty text.
C24_Witness ==
    /\ generated.done /\ ~generated.forExport
    /\ Len(notebook) = 2
    /\ notebook[1].type = "markdown"
    /\ notebook[2].type = "code" /\ notebook[2].text = <<"blank">>
    /\ \E g \in BeginCellLines(2) : generated.code[g].index = 0

\* The lines of the generated code of a kind.
KindLines(kind) == {g \in GeneratedLines : generated.code[g].kind = kind}

\* The kinds of the lines generated in the loop over the cells.
CellKinds == {"beginCell", "localPre", "source", "blanked", "localPost", "captureLocals"}

\* C34: the code generated for the evaluation of N code cells holds N
\* openers `__cell(...`, one call of __end that comes after every line
\* generated for a cell, and N closers that follow it directly.
C34_WrappersBalanced ==
    (generated.done /\ ~generated.forExport) =>
        LET N == Len(CodeCellsOf(notebook))
        IN  /\ Cardinality(KindLines("beginCell")) = N
            /\ Cardinality(KindLines("endOfCells")) = 1
            /\ Cardinality(KindLines("closer")) = N
            /\ \A e \in KindLines("endOfCells") :
                  /\ \A g \in GeneratedLines :
                        generated.code[g].kind \in CellKinds => g < e
                  /\ KindLines("closer") = (e + 1)..(e + N)

\* Code for evaluation of two code cells, one of them of local scope.
C34_Witness ==
    /\ generated.done /\ ~generated.forExport
    /\ Len(CodeCellsOf(notebook)) = 2
    /\ \E i \in DOMAIN notebook : notebook[i].scope = "local" /\ notebook[i].type = "code"
    /\ Cardinality(KindLines("closer")) = 2

\* The lines of the generated code that hold the text of the code cell at
\* the given position.
BodyLines(k) ==
    {g \in GeneratedLines :
        generated.code[g].kind \in FromSource /\ generated.code[g].index = k}

\* The lines that capture the locals of the code cell at the given position.
CaptureLines(k) ==
    {g \in KindLines("captureLocals") : generated.code[g].index = k}

\* C35: in the code generated for evaluation a cell has a __capture_locals
\* call, one and with its id, exactly when its scope is not local; the lines
\* of a cell of local scope, and of no other cell, stand between the opening
\* and the closing line of an async function that is called at once; and the
\* evaluator keeps no getter of locals for a cell of local scope.
C35_LocalCellsNotCaptured ==
    (generated.done /\ ~generated.forExport) =>
        LET cells == CodeCellsOf(notebook)
        IN  \A k \in 0..(Len(cells) - 1) :
                LET cell == cells[k + 1]
                    first == CHOOSE g \in BodyLines(k) : \A h \in BodyLines(k) : g <= h
                    last == CHOOSE g \in BodyLines(k) : \A h \in BodyLines(k) : g >= h
                IN  /\ BodyLines(k) # {}
                    /\ (CaptureLines(k) # {}) <=> (cell.scope # "local")
                    /\ Cardinality(CaptureLines(k)) <= 1
                    /\ \A g \in CaptureLines(k) :
                          generated.code[g].cell = cell.id /\ g = last + 1
                    /\ (generated.code[first - 1].kind = "localPre") <=> (cell.scope = "local")
                    /\ (generated.code[last + 1].kind = "localPost") <=> (cell.scope = "local")
                    /\ cell.scope = "local" => k \notin localsFnCache(generated.code)
                    /\ cell.scope # "local" => k \in localsFnCache(generated.code)

\* Code for evaluation of a cell of local scope followed by a global one.
C35_Witness ==
    /\ generated.done /\ ~generated.forExport
    /\ Len(notebook) = 2
    /\ notebook[1].type = "code" /\ notebook[1].scope = "local"
    /\ notebook[2].type = "code" /\ notebook[2].scope = "global"
    /\ localsFnCache(generated.code) = {1}

\* The lines of the text (counted from 0) of the code cell at the given
\* position that are import statements.
ImportLinesOf(k) ==
    LET text == CodeCellsOf(notebook)[k + 1].text
    IN  {j \in 0..(Len(text) - 1) : isModuleImportStatement(text[j + 1])}

CellStartLines(cellId) ==
    {m.gen : m \in {e \in generated.sourceMap : e.cell = cellId /\ e.line = 0}}

\* The number of lines of generated code before the code of the code cell at
\* the given position, which for a cell of local scope begins with the line
\* that opens its function.
EmittedBefore(k) ==
    LET first == CHOOSE g \in BodyLines(k) : \A h \in BodyLines(k) : g <= h
    IN  IF CodeCellsOf(notebook)[k + 1].scope = "local"
        THEN first - 1 - NumLinesLocalPre
        ELSE first - 1

\* C39: the start line recorded for a code cell, which is the value of
\* generatedCodeOffset when the code of the cell is about to be appended, is
\* the number of lines, each ended by a line feed, of the code generated up
\* to there.
C39_OffsetCountsEmittedLines ==
    generated.done =>
        \A k \in 0..(Len(CodeCellsOf(notebook)) - 1) :
            CellStartLines(CodeCellsOf(notebook)[k + 1].id) = {EmittedBefore(k)}

\* A cell of local scope with an import statement, then a cell whose start
\* line follows eight lines of generated code.
C39_Witness ==
    /\ generated.done /\ ~generated.forExport
    /\ Len(notebook) = 2
    /\ notebook[1].type = "code" /\ notebook[1].scope = "local"
    /\ notebook[1].text = <<"import", "code">>
    /\ notebook[2].type = "code"
    /\ CellStartLines(2) = {8}

====
